---- MODULE Spec2Model ----
(***************************************************************************)
(* Model of the Venafi certificate enrollment handler of the Vault PKI     *)
(* backend: plugin/pki/path_venafi_cert_enroll.go (pathVenafiCertObtain,   *)
(* createVenafiCSR) and of the revoke handler (venafiCertRevoke).          *)
(*                                                                         *)
(* Spec has one handler that serves its requests one after the other;      *)
(* SpecConcurrent has two handlers that serve requests for one common name *)
(* at the same time; SpecLive is Spec with the handler and the CA making   *)
(* progress.                                                               *)
(*                                                                         *)
(* Text is modelled as a sequence of one-character strings, so that        *)
(* concatenation ("certs/" + commonName) and serial formatting are         *)
(* computed and two keys are equal exactly when their texts are.           *)
(***************************************************************************)
EXTENDS Integers, Sequences, FiniteSets, TLC

\* ------------------------------------------------------------------ bounds

\* Enrollment requests the host handles one after the other.
MaxEnrollments == 2
\* Pending/Timeout answers the CA gives to one enrollment before it must
\* answer Issued or a non-retryable error.
MaxPending == 2
\* Largest reading of time.Now().
MaxTime == 2

\* ------------------------------------------------------------------- text

Null == [null |-> TRUE]

EmptyStr == << >>

CertsPrefix == <<"c", "e", "r", "t", "s", "/">>

HexDigits ==
    <<"0", "1", "2", "3", "4", "5", "6", "7",
      "8", "9", "A", "B", "C", "D", "E", "F">>

\* One octet as two hex digits ("%02X").
HexOctet(b) == <<HexDigits[(b \div 16) + 1], HexDigits[(b % 16) + 1]>>

\* big.Int.Bytes(): the big-endian octets of n, none for 0.
RECURSIVE BigIntBytes(_)
BigIntBytes(n) ==
    IF n = 0 THEN << >> ELSE Append(BigIntBytes(n \div 256), n % 256)

\* getHexFormatted(buf, sep): the octets of buf as hex pairs joined by sep.
RECURSIVE getHexFormatted(_, _)
getHexFormatted(buf, sep) ==
    IF Len(buf) = 0 THEN EmptyStr
    ELSE IF Len(buf) = 1 THEN HexOctet(buf[1])
    ELSE HexOctet(buf[1]) \o sep \o getHexFormatted(Tail(buf), sep)

\* normalizeSerial(serial): the serial text without its colons.
RECURSIVE normalizeSerial(_)
normalizeSerial(s) ==
    IF Len(s) = 0 THEN EmptyStr
    ELSE IF Head(s) = ":" THEN normalizeSerial(Tail(s))
    ELSE <<Head(s)>> \o normalizeSerial(Tail(s))

\* sliceContains(slice, item)
sliceContains(slice, item) == \E i \in 1..Len(slice) : slice[i] = item

\* Number of positions of seq holding x.
Count(seq, x) == Cardinality({i \in 1..Len(seq) : seq[i] = x})

\* ------------------------------------------------------------ key and CSR

\* vcertificate.KeyType: KeyTypeRSA is the zero value.
KeyTypeRSA == "RSA"
KeyTypeECDSA == "ECDSA"

\* vcertificate.EllipticCurve as set by the switch on pk.keyCurve; a curve
\* the switch does not name leaves the field at its zero value.
CurveUnset == "unset"

\* Faulty variant of CurveOf: a curve the switch does not name becomes P256.
CurveOfDefaulted(keyCurve) ==
    IF keyCurve \in {"P224", "P256", "P384", "P521"} THEN keyCurve
    ELSE "P256"

\* Lines 242-253: the switch on pk.keyCurve.
CurveOf(keyCurve) ==
    IF keyCurve \in {"P224", "P256", "P384", "P521"} THEN keyCurve
    ELSE CurveUnset

\* A nil error.
NoErr == ""

ErrNoDomains == "no domains specified on certificate"
ErrKeyAlgorithm == "can't determine key algorithm"

\* The vcertificate.Request{} the function starts from.
EmptyRequest ==
    [CommonName |-> EmptyStr, DNSNames |-> << >>, KeyType |-> KeyTypeRSA,
     KeyLength |-> 0, KeyCurve |-> CurveUnset, PrivateKey |-> Null,
     CSR |-> EmptyStr, PickupID |-> 0]

\* Faulty variant of EffectiveCN: an empty common name stays empty.
EffectiveCNKept(commonName, altNames) == commonName

\* Lines 63-65 and 213-215: an empty common name is replaced by the first
\* alt name.
EffectiveCN(commonName, altNames) ==
    IF Len(commonName) = 0 /\ Len(altNames) > 0 THEN altNames[1]
    ELSE commonName

\* Lines 221-234: req.DNSNames is a copy of altNames, with the common name
\* appended when sliceContains does not find it.
SANList(commonName, altNames) ==
    IF sliceContains(altNames, commonName) THEN altNames
    ELSE Append(altNames, commonName)

\* GenerateRSAPrivateKey / GenerateECDSAPrivateKey: a fresh key, told apart
\* from every other key by its number n. Key sizes and curves are those the
\* generators accept, so generation itself does not fail.
GenerateKey(keyType, keyLength, keyCurve, n) ==
    [alg |-> keyType,
     bits |-> IF keyType = KeyTypeRSA THEN keyLength ELSE 0,
     curve |-> IF keyType = KeyTypeECDSA THEN keyCurve ELSE CurveUnset,
     n |-> n]

\* getPrivateKeyPEMBock: the PEM block of a private key.
getPrivateKeyPEMBock(key) ==
    [Type |-> IF key.alg = KeyTypeRSA THEN "RSA PRIVATE KEY"
              ELSE "EC PRIVATE KEY",
     Bytes |-> key.n]

\* pem.EncodeToMemory of a block, as text.
PemEncode(block) == <<"-----BEGIN", block.Type, block.Bytes>>

\* Faulty variant of KeyTypeSupported: no key type is refused.
KeyTypeSupportedLax(keyType) == TRUE

\* Lines 238-257: the key types createVenafiCSR accepts.
KeyTypeSupported(keyType) == keyType \in {"rsa", "ec"}

\* createVenafiCSR(commonName, altNames, pk), with n the number the key
\* generator gives the key. The result is [req, key, err].
createVenafiCSR(commonName, altNames, pk, n) ==
    IF Len(commonName) = 0 /\ Len(altNames) = 0
    THEN [req |-> EmptyRequest, key |-> Null, err |-> ErrNoDomains]
    ELSE
    LET cn == EffectiveCN(commonName, altNames)
        named == [EmptyRequest EXCEPT !.CommonName = cn,
                                      !.DNSNames = SANList(cn, altNames)]
    IN  IF ~KeyTypeSupported(pk.keyType)
        THEN [req |-> named, key |-> Null, err |-> ErrKeyAlgorithm]
        ELSE
        LET typed ==
                IF pk.keyType = "ec"
                THEN [named EXCEPT !.KeyType = KeyTypeECDSA,
                                   !.KeyCurve = CurveOf(pk.keyCurve)]
                ELSE [named EXCEPT !.KeyLength = pk.keyBits]
            priv == GenerateKey(typed.KeyType, typed.KeyLength,
                                typed.KeyCurve, n)
            keyed == [typed EXCEPT !.PrivateKey = priv]
            csr == [subject |-> keyed.CommonName,
                    dnsNames |-> keyed.DNSNames,
                    signedBy |-> priv.n]
        IN  [req |-> [keyed EXCEPT !.CSR = PemEncode(
                          [Type |-> "CERTIFICATE REQUEST", Bytes |-> csr])],
             key |-> getPrivateKeyPEMBock(priv),
             err |-> NoErr]

\* ------------------------------------------------------------------ state

VARIABLES
    procs,      \* the request handlers of the host that take requests
    enr,        \* per handler: the locals of pathVenafiCertObtain
    storage,    \* req.Storage: key text -> stored entry
    started     \* enrollment requests received so far

vars == <<procs, enr, storage, started>>

AllProcs == {1, 2}

\* ----------------------------------------------------------------- inputs

KeyTypes == {"rsa", "ec", "dsa"}

\* key_curve values of a role: a curve createVenafiCSR names, and the empty
\* text, which it does not.
KeyCurves == {"P256", ""}

\* Role policies the role store may hold (roleEntry): an rsa role with every
\* combination of the three storage flags and no lease; an rsa role and a
\* role of an unsupported key type with a lease and every storage flag set;
\* and ec roles of either curve that store nothing and give no lease.
Policies ==
    {r \in [keyType : KeyTypes, keyBits : {2048}, keyCurve : KeyCurves,
            StoreByCN : BOOLEAN, StoreBySerial : BOOLEAN,
            StorePrivateKey : BOOLEAN, GenerateLease : BOOLEAN] :
        /\ r.keyType # "ec" => r.keyCurve = "P256"
        /\ (r.keyType = "dsa" \/ r.GenerateLease) =>
              /\ r.keyType # "ec"
              /\ r.StoreByCN /\ r.StoreBySerial
              /\ r.StorePrivateKey /\ r.GenerateLease
        /\ r.keyType = "ec" =>
              ~r.StoreByCN /\ ~r.StoreBySerial /\ ~r.StorePrivateKey}

\* While two handlers serve requests at the same time, the roles are rsa
\* roles that store by common name only, with or without the key.
ConcurrentPolicies ==
    {r \in Policies :
        /\ r.keyType = "rsa" /\ r.StoreByCN /\ ~r.StoreBySerial
        /\ ~r.GenerateLease}

\* common_name values of a request; "01" is also the text of a serial.
CommonNames == {EmptyStr, <<"0", "1">>}

\* alt_names values of a request.
AltNameLists == {<< >>, << <<"a">> >>, << <<"a">>, <<"a">> >>}

\* The field data of an issue request; a list that repeats a name comes
\* without a common name.
Requests ==
    {d \in [role : {"web"}, common_name : CommonNames,
            alt_names : AltNameLists] :
        Len(d.alt_names) > 1 => d.common_name = EmptyStr}

\* While two handlers serve requests at the same time, every request asks
\* for the same common name.
ConcurrentRequests ==
    {d \in Requests : d.common_name # EmptyStr /\ d.alt_names = << >>}

\* The field data of a revoke request.
RevokeRequests ==
    [role : {"web"}, certificate_uid : {<<"0", "1">>, <<"z">>}]

\* The well-formed leaf certificates of the CA: serial number and NotAfter.
Leaves == {[serial |-> 1, notAfter |-> 1], [serial |-> 4660, notAfter |-> 2]}

\* Readings of time.Now().
Times == 0..MaxTime

ErrPending == "ErrCertificatePending"
ErrTimeout == "ErrRetrieveCertificateTimeout"
ErrRejected == "certificate request rejected"
ErrSubmit == "submission failed"
ErrClient == "client configuration error"
ErrRoleLookup == "role lookup failed"
ErrUnknownRole == "Unknown role"
ErrStorage == "storage put failed"

\* The certificate of the issuing CA, sent as the chain.
IssuerPEM == [pem |-> TRUE, der |-> TRUE, serial |-> 0, notAfter |-> 0]

\* The leaf certificates the CA may return: well formed ones, text that is
\* no PEM block, and a PEM block whose DER does not parse.
LeafCerts ==
    {[pem |-> TRUE, der |-> TRUE, serial |-> l.serial,
      notAfter |-> l.notAfter] : l \in Leaves}
    \cup {[pem |-> FALSE, der |-> FALSE, serial |-> 0, notAfter |-> 0],
          [pem |-> TRUE, der |-> FALSE, serial |-> 0, notAfter |-> 0]}

\* ------------------------------------------------------------- the handler

\* The locals of a handler that serves no request. The fields up to resp
\* are the locals of pathVenafiCertObtain; the others record what the
\* request has done: now is the reading of time.Now() at line 190, eid the
\* number of the request, clientBuilt whether b.ClientVenafi returned a
\* client, submits the CSRs given to RequestCertificate, polled the pickup
\* ids given to RetrieveCertificate, retrieves its calls, sleeps the sleeps
\* of the loop, retryable the Pending/Timeout answers and terminal the other
\* answers of the CA, before the storage when the request came in, puts
\* the entries Put has stored, putFailed whether a Put failed, builds the
\* calls of createVenafiCSR. d is the field data of venafiCertRevoke.
Idle ==
    [pc |-> "idle", data |-> Null, d |-> Null, builds |-> 0, role |-> Null,
     commonName |-> EmptyStr, altNames |-> << >>,
     certReq |-> Null, pkey |-> Null, id |-> 0, cert |-> Null,
     certificate |-> Null, chain |-> << >>, parsed |-> Null,
     serialNumber |-> EmptyStr, entry |-> Null, resp |-> Null,
     now |-> 0, eid |-> 0, clientBuilt |-> FALSE, submits |-> << >>,
     polled |-> {}, retrieves |-> 0, sleeps |-> 0, retryable |-> 0,
     terminal |-> 0, before |-> << >>, puts |-> << >>, putFailed |-> FALSE]

\* Faulty variant of NoDomains: the request is never refused here.
NoDomainsUnchecked(commonName, altNames) == FALSE

\* Line 60: neither a common name nor an alt name is given.
NoDomains(commonName, altNames) ==
    Len(commonName) = 0 /\ Len(altNames) = 0

\* logical.ErrorResponse(msg), returned with a nil error.
ErrorResponse(msg) == [kind |-> "errorResponse", err |-> msg]

\* return nil, err
GoError(msg) == [kind |-> "error", err |-> msg]

\* return nil, nil
NilResponse == [kind |-> "nil", err |-> NoErr]

Return(p, r) == enr' = [enr EXCEPT ![p].pc = "done", ![p].resp = r]

\* One handler serves the requests, one after the other.
Init ==
    /\ procs = {1}
    /\ enr = [p \in AllProcs |-> Idle]
    /\ storage = << >>
    /\ started = 0

\* Two handlers serve requests at the same time.
InitConcurrent ==
    /\ procs = AllProcs
    /\ enr = [p \in AllProcs |-> Idle]
    /\ storage = << >>
    /\ started = 0

Concurrent == procs = AllProcs

\* The issue requests the host receives.
IssueRequests == IF Concurrent THEN ConcurrentRequests ELSE Requests

\* The roles b.getRole may find.
StoredRoles == IF Concurrent THEN ConcurrentPolicies ELSE Policies

\* The host hands an issue request to the handler (lines 44-48).
Start(p) ==
    /\ p \in procs
    /\ enr[p].pc = "idle"
    /\ started < MaxEnrollments
    /\ \E d \in IssueRequests :
          enr' = [enr EXCEPT ![p] =
                    [Idle EXCEPT !.pc = "getRole",
                                 !.eid = started + 1,
                                 !.before = storage,
                                 !.data = d]]
    /\ started' = started + 1
    /\ UNCHANGED <<procs, storage>>

\* Lines 50-56: b.getRole answers an error, no role, or a role.
GetRole(p) ==
    /\ p \in procs
    /\ enr[p].pc = "getRole"
    /\ \/ Return(p, GoError(ErrRoleLookup))
       \/ Return(p, GoError(ErrUnknownRole))
       \/ \E r \in StoredRoles :
            enr' = [enr EXCEPT ![p].pc = "names", ![p].role = r]
    /\ UNCHANGED <<procs, storage, started>>

\* Lines 58-65: the names of the request.
CheckNames(p) ==
    /\ p \in procs
    /\ enr[p].pc = "names"
    /\ LET cn == enr[p].data.common_name
           alt == enr[p].data.alt_names
       IN  IF NoDomains(cn, alt)
           THEN Return(p, ErrorResponse(ErrNoDomains))
           ELSE enr' = [enr EXCEPT ![p].pc = "client",
                                   ![p].commonName = EffectiveCN(cn, alt),
                                   ![p].altNames = alt]
    /\ UNCHANGED <<procs, storage, started>>

\* Lines 70-73: b.ClientVenafi builds the CA client or fails.
ClientVenafi(p) ==
    /\ p \in procs
    /\ enr[p].pc = "client"
    /\ \/ Return(p, ErrorResponse(ErrClient))
       \/ enr' = [enr EXCEPT ![p].pc = "csr", ![p].clientBuilt = TRUE]
    /\ UNCHANGED <<procs, storage, started>>

\* Lines 75-85: the key request of the role and createVenafiCSR. The key
\* generated for a request is named by the number of the request.
CreateCSR(p) ==
    /\ p \in procs
    /\ enr[p].pc = "csr"
    /\ LET pk == [keyType |-> enr[p].role.keyType,
                  keyBits |-> enr[p].role.keyBits,
                  keyCurve |-> enr[p].role.keyCurve]
           built == createVenafiCSR(enr[p].commonName, enr[p].altNames,
                                    pk, enr[p].eid)
       IN  IF built.err # NoErr
           THEN enr' = [enr EXCEPT ![p].pc = "done",
                                   ![p].builds = @ + 1,
                                   ![p].resp = ErrorResponse(built.err)]
           ELSE enr' = [enr EXCEPT ![p].pc = "submit",
                                   ![p].builds = @ + 1,
                                   ![p].certReq = built.req,
                                   ![p].pkey = built.key]
    /\ UNCHANGED <<procs, storage, started>>

\* Faulty variant of NextAfterSubmit: a failed submission is tried again.
NextAfterSubmitRetry(err) == IF err = NoErr THEN "retrieve" ELSE "submit"

\* Lines 88-92: where the handler goes after cl.RequestCertificate.
NextAfterSubmit(err) == IF err = NoErr THEN "retrieve" ELSE "done"

\* The pickup handle the CA gives to the submission of a request: handles
\* are named by the number of the request, 0 is no handle.
PickupHandle(e) == e.eid

\* Lines 87-92: cl.RequestCertificate(certReq, "") answers a pickup handle
\* or an error.
RequestCertificate(p) ==
    /\ p \in procs
    /\ enr[p].pc = "submit"
    /\ \E err \in {NoErr, ErrSubmit} :
         LET id == IF err = NoErr THEN PickupHandle(enr[p]) ELSE 0
         IN  enr' = [enr EXCEPT
                ![p].pc = NextAfterSubmit(err),
                ![p].submits = Append(@, enr[p].certReq.CSR),
                ![p].id = id,
                ![p].certReq.PickupID = id,
                ![p].resp = IF err = NoErr THEN Null ELSE ErrorResponse(err)]
    /\ UNCHANGED <<procs, storage, started>>

\* Faulty variant of IsRetryable: every retrieval error is polled again.
IsRetryableAny(err) == TRUE

\* Lines 98-101: the errors of RetrieveCertificate that are polled again.
IsRetryable(err) == err \in {ErrPending, ErrTimeout}

\* Faulty variant of RetrieveHandle: every poll carries the first handle
\* the CA ever gave.
RetrieveHandleFirst(e) == 1

\* Lines 92 and 96: the pickup handle a poll carries, certReq.PickupID.
RetrieveHandle(e) == e.certReq.PickupID

\* Lines 96-111: one cl.RetrieveCertificate(certReq) and what the loop does
\* with its answer. The CA answers for the handle it is asked about: pickup
\* is the handle a certificate was picked up with.
RetrieveCertificate(p) ==
    /\ p \in procs
    /\ enr[p].pc = "retrieve"
    /\ \/ \E err \in {ErrPending, ErrTimeout, ErrRejected} :
            /\ err \in {ErrPending, ErrTimeout}
                  => enr[p].retryable < MaxPending
            /\ enr' = [enr EXCEPT
                   ![p].pc = IF IsRetryable(err) THEN "sleep" ELSE "done",
                   ![p].resp = IF IsRetryable(err) THEN Null
                               ELSE ErrorResponse(err),
                   ![p].polled = @ \cup {RetrieveHandle(enr[p])},
                   ![p].retrieves = @ + 1,
                   ![p].retryable =
                       IF err \in {ErrPending, ErrTimeout} THEN @ + 1 ELSE @,
                   ![p].terminal =
                       IF err \in {ErrPending, ErrTimeout} THEN @ ELSE @ + 1]
       \/ \E leaf \in LeafCerts :
            enr' = [enr EXCEPT
                   ![p].pc = "parse",
                   ![p].cert = [Certificate |-> leaf,
                                Chain |-> <<IssuerPEM>>,
                                pickup |-> RetrieveHandle(enr[p])],
                   ![p].polled = @ \cup {RetrieveHandle(enr[p])},
                   ![p].retrieves = @ + 1,
                   ![p].terminal = @ + 1]
    /\ UNCHANGED <<procs, storage, started>>

\* Faulty variant of Sleep: after the sleep the handler gives up.
SleepThenGiveUp(p) ==
    /\ p \in procs
    /\ enr[p].pc = "sleep"
    /\ enr' = [enr EXCEPT ![p].pc = "done", ![p].sleeps = @ + 1,
                           ![p].resp = ErrorResponse(ErrTimeout)]
    /\ UNCHANGED <<procs, storage, started>>

\* Line 103: time.Sleep(5 * time.Second), then the loop continues.
Sleep(p) ==
    /\ p \in procs
    /\ enr[p].pc = "sleep"
    /\ enr' = [enr EXCEPT ![p].pc = "retrieve", ![p].sleeps = @ + 1]
    /\ UNCHANGED <<procs, storage, started>>

\* pem.Decode: the first PEM block of a text, nil when it holds none.
PemDecode(text) ==
    IF text.pem THEN [Type |-> "CERTIFICATE", Bytes |-> text] ELSE Null

\* Faulty variant of ParseCertificate: whatever the bytes, a certificate.
ParseCertificateAny(der) ==
    [SerialNumber |-> der.serial, NotAfter |-> der.notAfter]

\* x509.ParseCertificate: the certificate of a DER encoding, nil (and an
\* error) when it does not parse.
ParseCertificate(der) ==
    IF der.der THEN [SerialNumber |-> der.serial, NotAfter |-> der.notAfter]
    ELSE Null

\* Lines 114-122: certificate and chain texts, and the serial number of the
\* parsed leaf. pemBlock and parsedCertificate are used unchecked: a nil one
\* is a nil dereference, which ends the handler in a run-time panic.
Parse(p) ==
    /\ p \in procs
    /\ enr[p].pc = "parse"
    /\ LET certificate == enr[p].cert.Certificate
           chain == <<enr[p].cert.Certificate>> \o enr[p].cert.Chain
           pemBlock == PemDecode(certificate)
           parsedCertificate == ParseCertificate(pemBlock.Bytes)
       IN  IF pemBlock = Null \/ parsedCertificate = Null
           THEN enr' = [enr EXCEPT ![p].pc = "panic",
                                   ![p].certificate = certificate,
                                   ![p].chain = chain]
           ELSE enr' = [enr EXCEPT
                   ![p].pc = "entry",
                   ![p].certificate = certificate,
                   ![p].chain = chain,
                   ![p].parsed = parsedCertificate,
                   ![p].serialNumber =
                       getHexFormatted(
                           BigIntBytes(parsedCertificate.SerialNumber),
                           <<":">>)]
    /\ UNCHANGED <<procs, storage, started>>

\* Faulty variant of StoredPrivateKey: the key is stored whatever the role.
StoredPrivateKeyAlways(storePrivateKey, encoded_key) == encoded_key

\* Lines 129-142: the PrivateKey field of the stored VenafiCert.
StoredPrivateKey(storePrivateKey, encoded_key) ==
    IF storePrivateKey THEN encoded_key ELSE EmptyStr

\* Lines 124-142: the storage entry, the JSON of a VenafiCert.
BuildEntry(p) ==
    /\ p \in procs
    /\ enr[p].pc = "entry"
    /\ enr' = [enr EXCEPT
           ![p].pc = "putCN",
           ![p].entry =
               [Key |-> EmptyStr,
                Value |->
                   [certificate |-> enr[p].certificate,
                    certificate_chain |-> enr[p].chain,
                    private_key |->
                        StoredPrivateKey(enr[p].role.StorePrivateKey,
                                         PemEncode(enr[p].pkey)),
                    serial_number |-> enr[p].serialNumber]]]
    /\ UNCHANGED <<procs, storage, started>>

\* Faulty variant of StoragePut: an entry that replaces another one keeps
\* the private key that was stored before.
StoragePutKeepKey(store, entry, writer) ==
    LET value == IF entry.Key \in DOMAIN store
                 THEN [entry.Value EXCEPT
                          !.private_key = store[entry.Key].Value.private_key]
                 ELSE entry.Value
    IN  (entry.Key :> [Value |-> value, writer |-> writer]) @@ store

\* req.Storage.Put(ctx, entry) that succeeds: the entry replaces whatever
\* the key held. writer names the enrollment that wrote it.
StoragePut(store, entry, writer) ==
    (entry.Key :> [Value |-> entry.Value, writer |-> writer]) @@ store

\* The enrollment as the writer of an entry.
Writer(p) ==
    [StorePrivateKey |-> enr[p].role.StorePrivateKey,
     pkey |-> enr[p].pkey]

\* One write of the handler: entry.Key is set, then Put succeeds or fails;
\* a failure is returned as the error of the request (return nil, err).
Write(p, key, next) ==
    \/ /\ enr' = [enr EXCEPT ![p].pc = next,
                              ![p].entry.Key = key,
                              ![p].puts =
                                  Append(@, [enr[p].entry EXCEPT !.Key = key])]
       /\ storage' = StoragePut(storage, [enr[p].entry EXCEPT !.Key = key],
                                Writer(p))
    \/ /\ enr' = [enr EXCEPT ![p].pc = "done",
                              ![p].entry.Key = key,
                              ![p].putFailed = TRUE,
                              ![p].resp = GoError(ErrStorage)]
       /\ storage' = storage

\* "certs/" + commonName
CNKey(commonName) == CertsPrefix \o commonName

\* "certs/" + normalizeSerial(serialNumber)
SerialKey(serialNumber) == CertsPrefix \o normalizeSerial(serialNumber)

\* Faulty variant of WritesCN: the common-name copy is always written.
WritesCNAlways(role) == TRUE

\* Line 144: if role.StoreByCN
WritesCN(role) == role.StoreByCN

\* Faulty variant of WritesSerial: the serial copy is written only when no
\* common-name copy was.
WritesSerialElse(role) == role.StoreBySerial /\ ~role.StoreByCN

\* Line 156: if role.StoreBySerial
WritesSerial(role) == role.StoreBySerial

\* Faulty variant of PutCN: after the copy under certs/<commonName> the
\* handler builds the response.
PutCNThenRespond(p) ==
    /\ p \in procs
    /\ enr[p].pc = "putCN"
    /\ IF WritesCN(enr[p].role)
       THEN Write(p, CNKey(enr[p].commonName), "respond")
       ELSE /\ enr' = [enr EXCEPT ![p].pc = "putSerial"]
            /\ storage' = storage
    /\ UNCHANGED <<procs, started>>

\* Lines 144-154: the copy under certs/<commonName>.
PutCN(p) ==
    /\ p \in procs
    /\ enr[p].pc = "putCN"
    /\ IF WritesCN(enr[p].role)
       THEN Write(p, CNKey(enr[p].commonName), "putSerial")
       ELSE /\ enr' = [enr EXCEPT ![p].pc = "putSerial"]
            /\ storage' = storage
    /\ UNCHANGED <<procs, started>>

\* Lines 156-166: the copy under certs/<normalized serial>.
PutSerial(p) ==
    /\ p \in procs
    /\ enr[p].pc = "putSerial"
    /\ IF WritesSerial(enr[p].role)
       THEN Write(p, SerialKey(enr[p].serialNumber), "respond")
       ELSE /\ enr' = [enr EXCEPT ![p].pc = "respond"]
            /\ storage' = storage
    /\ UNCHANGED <<procs, started>>

WarningACL == "Read access to this endpoint should be controlled via ACLs"

\* Faulty variant of LeaseTTL: a lease never has a negative duration.
LeaseTTLClamped(notAfter, now) == IF notAfter > now THEN notAfter - now ELSE 0

\* Line 190: parsedCertificate.NotAfter.Sub(time.Now())
LeaseTTL(notAfter, now) == notAfter - now

\* Lines 168-196: the response, a leased secret when the role asks for one.
Respond(p) ==
    /\ p \in procs
    /\ enr[p].pc = "respond"
    /\ LET respData ==
               [common_name |-> enr[p].commonName,
                serial_number |-> enr[p].serialNumber,
                certificate_chain |-> enr[p].chain,
                certificate |-> enr[p].certificate,
                private_key |-> PemEncode(enr[p].pkey)]
       IN  IF enr[p].role.GenerateLease = FALSE
           THEN Return(p, [kind |-> "ok", Data |-> respData,
                           Secret |-> Null, Warnings |-> <<WarningACL>>])
           ELSE \E now \in Times :
                  enr' = [enr EXCEPT
                     ![p].pc = "done",
                     ![p].now = now,
                     ![p].resp =
                        [kind |-> "ok", Data |-> respData,
                         Secret |->
                            [InternalData |->
                                [serial_number |-> enr[p].serialNumber],
                             TTL |-> LeaseTTL(enr[p].parsed.NotAfter, now)],
                         Warnings |-> <<WarningACL>>]]
    /\ UNCHANGED <<procs, storage, started>>

\* Faulty variant of Revoke: the entry of the certificate named is removed.
RevokeRemoves(p) ==
    /\ p \in procs
    /\ enr[p].pc = "idle"
    /\ \E d \in RevokeRequests :
          /\ enr' = [enr EXCEPT ![p] =
                       [Idle EXCEPT !.pc = "done",
                                    !.before = storage,
                                    !.d = d,
                                    !.resp = NilResponse]]
          /\ storage' = [k \in DOMAIN storage
                               \ {CertsPrefix \o d.certificate_uid}
                           |-> storage[k]]
    /\ UNCHANGED <<procs, started>>

\* venafiCertRevoke(ctx, req, d): return nil, nil.
Revoke(p) ==
    /\ p \in procs
    /\ enr[p].pc = "idle"
    /\ \E d \in RevokeRequests :
          enr' = [enr EXCEPT ![p] =
                    [Idle EXCEPT !.pc = "done",
                                 !.before = storage,
                                 !.d = d,
                                 !.resp = NilResponse]]
    /\ UNCHANGED <<procs, storage, started>>

\* The handler has returned (or panicked) and is free for the next request.
Finish(p) ==
    /\ p \in procs
    /\ enr[p].pc \in {"done", "panic"}
    /\ enr' = [enr EXCEPT ![p] = Idle]
    /\ UNCHANGED <<procs, storage, started>>

Next ==
    \/ \E p \in AllProcs : Start(p)
    \/ \E p \in AllProcs : GetRole(p)
    \/ \E p \in AllProcs : CheckNames(p)
    \/ \E p \in AllProcs : ClientVenafi(p)
    \/ \E p \in AllProcs : CreateCSR(p)
    \/ \E p \in AllProcs : RequestCertificate(p)
    \/ \E p \in AllProcs : RetrieveCertificate(p)
    \/ \E p \in AllProcs : Sleep(p)
    \/ \E p \in AllProcs : Parse(p)
    \/ \E p \in AllProcs : BuildEntry(p)
    \/ \E p \in AllProcs : PutCN(p)
    \/ \E p \in AllProcs : PutSerial(p)
    \/ \E p \in AllProcs : Respond(p)
    \/ \E p \in AllProcs : Revoke(p)
    \/ \E p \in AllProcs : Finish(p)

Spec == Init /\ [][Next]_vars

SpecConcurrent == InitConcurrent /\ [][Next]_vars

\* The steps of the handler itself, from the role lookup to the response.
HandlerStep(p) ==
    \/ GetRole(p) \/ CheckNames(p) \/ ClientVenafi(p) \/ CreateCSR(p)
    \/ RequestCertificate(p) \/ RetrieveCertificate(p) \/ Sleep(p)
    \/ Parse(p) \/ BuildEntry(p) \/ PutCN(p) \/ PutSerial(p) \/ Respond(p)

\* A handler that serves a request runs on: its goroutine is scheduled, and
\* the calls it makes (role store, CA, storage, sleep) return. That the CA
\* ends its Pending/Timeout answers is the guard of RetrieveCertificate.
SpecLive ==
    Init /\ [][Next]_vars /\ \A p \in AllProcs : WF_vars(HandlerStep(p))

\* ----------------------------------------------------------------- claims

RespKind(e) == IF e.resp = Null THEN "none" ELSE e.resp.kind

\* The handler has returned a response with the certificate.
Succeeded(e) == e.pc = "done" /\ RespKind(e) = "ok"

WellFormed(leaf) == leaf.pem /\ leaf.der

KeysWritten(e) == {e.puts[i].Key : i \in 1..Len(e.puts)}

\* The states of the handler between the polling loop and its return.
PostLoop == {"parse", "entry", "putCN", "putSerial", "respond", "panic"}

\* C1: RetrieveCertificate is called again exactly after a Pending or Timeout
\* answer. With k such answers so far there have been k sleeps (k - 1 while
\* the k-th sleep is under way); the first other answer is the last call:
\* after Issued the handler has left the loop with k + 1 calls and k sleeps
\* and returns the certificate unless parsing or a storage write stops it,
\* and after another error it has returned that error with k + 1 calls.
C1_RetryOnlyOnPendingOrTimeout ==
    \A p \in AllProcs :
        LET e == enr[p] IN
        /\ e.terminal <= 1
        /\ e.retrieves = e.retryable + e.terminal
        /\ e.sleeps = IF e.pc = "sleep" THEN e.retryable - 1 ELSE e.retryable
        /\ e.pc \in {"retrieve", "sleep"} => e.terminal = 0
        /\ (e.retrieves > 0 /\ e.terminal = 0)
              => e.pc \in {"retrieve", "sleep"}
        /\ (e.terminal = 1 /\ e.cert # Null)
              => /\ e.pc \in PostLoop \cup {"done"}
                 /\ e.retrieves = e.retryable + 1
                 /\ e.sleeps = e.retryable
                 /\ (e.pc = "done" /\ ~e.putFailed) => RespKind(e) = "ok"
        /\ (e.terminal = 1 /\ e.cert = Null)
              => /\ e.pc = "done"
                 /\ e.resp = ErrorResponse(ErrRejected)
                 /\ e.retrieves = e.retryable + 1
        /\ e.resp \notin {ErrorResponse(ErrPending), ErrorResponse(ErrTimeout)}

\* C1 witness: the answers Pending/Timeout, Pending/Timeout, Issued gave
\* three calls, two sleeps and a certificate.
C1_Witness ==
    \E p \in AllProcs :
        /\ Succeeded(enr[p])
        /\ enr[p].retryable = 2 /\ enr[p].retrieves = 3 /\ enr[p].sleeps = 2

BothCopies(e) == e.role # Null /\ e.role.StoreByCN /\ e.role.StoreBySerial

\* What C2 says of a role that stores both copies, but for the keys being
\* distinct: two writes, certs/<commonName> first, the same content; a failed
\* second write leaves the first entry in place.
TwoWrites(e) ==
    /\ Succeeded(e)
          => /\ Len(e.puts) = 2
             /\ e.puts[1].Key = CertsPrefix \o e.commonName
             /\ e.puts[2].Key = CertsPrefix \o normalizeSerial(e.serialNumber)
             /\ e.puts[1].Value = e.puts[2].Value
             /\ \A i \in 1..2 :
                   /\ e.puts[i].Key \in DOMAIN storage
                   /\ storage[e.puts[i].Key].Value = e.puts[i].Value
    /\ (e.pc = "done" /\ e.putFailed /\ Len(e.puts) = 1)
          => /\ e.puts[1].Key = CertsPrefix \o e.commonName
             /\ e.puts[1].Key \in DOMAIN storage
             /\ storage[e.puts[1].Key].Value = e.puts[1].Value
             /\ DOMAIN storage = DOMAIN e.before \cup {e.puts[1].Key}

\* C2 as stated: with storeByCommonName and storeBySerial a successful
\* enrollment writes twice, under certs/<commonName> and then under
\* certs/<normalizedSerial>, the same content under distinct keys, and a
\* failed second write leaves the first entry as written.
C2_TwoWritesDistinctKeys ==
    \A p \in AllProcs :
        BothCopies(enr[p])
            => /\ TwoWrites(enr[p])
               /\ Succeeded(enr[p])
                     => enr[p].puts[1].Key # enr[p].puts[2].Key

\* C2 amended: as stated, but the two keys are distinct exactly when the
\* common name is not the text of the normalized serial; when it is, the
\* second write replaces the first entry with the same content.
C2_TwoWritesNoRollback ==
    \A p \in AllProcs :
        BothCopies(enr[p])
            => /\ TwoWrites(enr[p])
               /\ Succeeded(enr[p])
                     => (enr[p].puts[1].Key # enr[p].puts[2].Key
                           <=> enr[p].commonName
                                  # normalizeSerial(enr[p].serialNumber))

\* C2 witness: both copies of one certificate are in storage under two keys.
C2_Witness ==
    \E p \in AllProcs :
        /\ BothCopies(enr[p]) /\ Succeeded(enr[p])
        /\ Len(enr[p].puts) = 2
        /\ enr[p].puts[1].Key # enr[p].puts[2].Key
        /\ storage[enr[p].puts[1].Key].Value
              = storage[enr[p].puts[2].Key].Value

ExpectedKeys(e) ==
    (IF e.role.StoreByCN THEN {CertsPrefix \o e.commonName} ELSE {})
    \cup (IF e.role.StoreBySerial
          THEN {CertsPrefix \o normalizeSerial(e.serialNumber)} ELSE {})

\* C3: a successful enrollment has written exactly the keys its role's flags
\* name, certs/<commonName> and certs/<normalizedSerial>, and left every
\* other entry as it was (all of storage when both flags are off); at no
\* point has an enrollment written any other key.
C3_KeysWrittenFollowFlags ==
    \A p \in AllProcs :
        LET e == enr[p] IN
        /\ KeysWritten(e) \subseteq
              {CertsPrefix \o e.commonName,
               CertsPrefix \o normalizeSerial(e.serialNumber)}
        /\ e.pc # "idle"
              => /\ DOMAIN storage = DOMAIN e.before \cup KeysWritten(e)
                 /\ \A k \in DOMAIN e.before \ KeysWritten(e) :
                       storage[k] = e.before[k]
        /\ Succeeded(e)
              => /\ KeysWritten(e) = ExpectedKeys(e)
                 /\ (~e.role.StoreByCN /\ ~e.role.StoreBySerial)
                       => storage = e.before

\* C3 witness: an enrollment under a role with both flags off succeeded and
\* the entries of an earlier enrollment are all that storage holds.
C3_Witness ==
    \E p \in AllProcs :
        /\ Succeeded(enr[p])
        /\ ~enr[p].role.StoreByCN /\ ~enr[p].role.StoreBySerial
        /\ enr[p].puts = << >>
        /\ storage # << >> /\ storage = enr[p].before

\* C4: every stored entry holds the private key of the enrollment that wrote
\* it when that enrollment's role has storePrivateKey, and an empty
\* private_key otherwise; a successful response carries the enrollment's
\* private key either way.
C4_StoredKeyFollowsPolicy ==
    /\ \A k \in DOMAIN storage :
          storage[k].Value.private_key =
              IF storage[k].writer.StorePrivateKey
              THEN PemEncode(storage[k].writer.pkey)
              ELSE EmptyStr
    /\ \A p \in AllProcs :
          LET e == enr[p]
              own == PemEncode(getPrivateKeyPEMBock(e.certReq.PrivateKey))
          IN  /\ \A i \in 1..Len(e.puts) :
                    e.puts[i].Value.private_key =
                        IF e.role.StorePrivateKey THEN own ELSE EmptyStr
              /\ Succeeded(e)
                    => /\ e.resp.Data.private_key = own
                       /\ e.resp.Data.private_key # EmptyStr

\* C4 witness: storage holds an entry written without the key and an entry
\* written with it.
C4_Witness ==
    \E k1, k2 \in DOMAIN storage :
        /\ ~storage[k1].writer.StorePrivateKey
        /\ storage[k1].Value.private_key = EmptyStr
        /\ storage[k2].writer.StorePrivateKey
        /\ storage[k2].Value.private_key # EmptyStr

\* C5: once RetrieveCertificate has answered a leaf that is no PEM block or
\* whose DER does not parse, the handler returns an error to the caller,
\* having written nothing and called the CA no more.
C5_MalformedCertificateFails ==
    \A p \in AllProcs :
        LET e == enr[p] IN
        (e.cert # Null /\ ~WellFormed(e.cert.Certificate) /\ e.pc # "parse")
            => /\ e.pc = "done"
               /\ RespKind(e) \in {"error", "errorResponse"}
               /\ e.puts = << >>
               /\ e.terminal = 1

RolePk(e) ==
    [keyType |-> e.role.keyType, keyBits |-> e.role.keyBits,
     keyCurve |-> e.role.keyCurve]

\* C6: RequestCertificate is called at most once per enrollment, with the
\* CSR createVenafiCSR built for it; when it fails the handler has returned
\* that error, without another submission, any retrieval or any write; and
\* retrieval only follows a submission that answered a handle.
C6_SubmitOnceNoRetry ==
    \A p \in AllProcs :
        LET e == enr[p] IN
        /\ Len(e.submits) <= 1
        /\ e.submits # << >>
              => e.submits[1] =
                    createVenafiCSR(e.commonName, e.altNames, RolePk(e),
                                    e.certReq.PrivateKey.n).req.CSR
        /\ (e.submits # << >> /\ e.id = 0)
              => /\ e.pc = "done"
                 /\ e.resp = ErrorResponse(ErrSubmit)
                 /\ e.retrieves = 0
                 /\ e.puts = << >>
                 /\ storage = e.before
        /\ e.retrieves > 0 => (Len(e.submits) = 1 /\ e.id > 0)

\* C6 witness: a submission failed and the handler returned its error.
C6_Witness ==
    \E p \in AllProcs :
        /\ enr[p].pc = "done"
        /\ Len(enr[p].submits) = 1 /\ enr[p].id = 0
        /\ enr[p].resp = ErrorResponse(ErrSubmit)

\* C7: a successful response carries the certificate data; without
\* generateLease it has no Secret, and with it the Secret's internal data is
\* the serial number and its TTL is NotAfter minus the time read when the
\* response is built, whatever its sign.
C7_LeaseFollowsPolicy ==
    \A p \in AllProcs :
        LET e == enr[p] IN
        Succeeded(e)
            => /\ e.resp.Data.certificate = e.cert.Certificate
               /\ e.resp.Data.serial_number = e.serialNumber
               /\ ~e.role.GenerateLease => e.resp.Secret = Null
               /\ e.role.GenerateLease
                     => /\ e.resp.Secret # Null
                        /\ e.resp.Secret.InternalData
                              = [serial_number |-> e.serialNumber]
                        /\ e.resp.Secret.TTL
                              = e.cert.Certificate.notAfter - e.now

\* C7 witness: a lease was given for a certificate that had already expired.
C7_Witness ==
    \E p \in AllProcs :
        /\ Succeeded(enr[p])
        /\ enr[p].role.GenerateLease
        /\ enr[p].resp.Secret.TTL < 0

\* C8: the DNS names of a built request hold its common name exactly once.
C8_CommonNameOnceInSAN ==
    \A p \in AllProcs :
        enr[p].certReq # Null
            => Count(enr[p].certReq.DNSNames, enr[p].certReq.CommonName) = 1

\* What C9 says besides the error: under a role whose key type is neither
\* rsa nor ec no key is generated, nothing is submitted or retrieved and
\* storage stays as it was.
NoKeyNoCA(e) ==
    /\ e.pkey = Null /\ e.certReq = Null
    /\ e.submits = << >> /\ e.retrieves = 0
    /\ e.puts = << >> /\ storage = e.before
    /\ e.pc \in {"names", "client", "csr", "done"}
    /\ e.pc = "done" => RespKind(e) = "errorResponse"

UnsupportedKeyType(e) == e.role # Null /\ e.role.keyType \notin {"rsa", "ec"}

\* C9 as stated: a key type outside {rsa, ec} always makes the enrollment
\* fail with the key algorithm error, with no key, no CA call and no write.
C9_UnsupportedKeyTypeAlwaysKeyError ==
    \A p \in AllProcs :
        UnsupportedKeyType(enr[p])
            => /\ NoKeyNoCA(enr[p])
               /\ enr[p].pc = "done"
                     => enr[p].resp = ErrorResponse(ErrKeyAlgorithm)

\* C9 amended: a key type outside {rsa, ec} always makes the enrollment
\* fail with no key, no CA call and no write; the failure is the key
\* algorithm error when the request names a domain and the CA client was
\* built, and otherwise the earlier failure: no domain named, or the client
\* not built.
C9_UnsupportedKeyTypeFails ==
    \A p \in AllProcs :
        LET e == enr[p] IN
        UnsupportedKeyType(e)
            => /\ NoKeyNoCA(e)
               /\ e.pc = "done"
                     => e.resp =
                          IF Len(e.data.common_name) = 0
                             /\ Len(e.data.alt_names) = 0
                          THEN ErrorResponse(ErrNoDomains)
                          ELSE IF ~e.clientBuilt
                          THEN ErrorResponse(ErrClient)
                          ELSE ErrorResponse(ErrKeyAlgorithm)

\* C9 witness: createVenafiCSR refused the key type of the role.
C9_Witness ==
    \E p \in AllProcs :
        /\ UnsupportedKeyType(enr[p])
        /\ enr[p].pc = "done" /\ enr[p].clientBuilt
        /\ enr[p].resp = ErrorResponse(ErrKeyAlgorithm)
        /\ enr[p].pkey = Null

NamesEmpty(e) ==
    /\ e.data # Null
    /\ Len(e.data.common_name) = 0 /\ Len(e.data.alt_names) = 0

\* What C10 says besides the error: a request without names ends before the
\* CA client is built, with no key, no CA call and no write.
EndsBeforeClient(e) ==
    /\ e.pc \in {"getRole", "names", "done"}
    /\ ~e.clientBuilt
    /\ e.pkey = Null /\ e.certReq = Null
    /\ e.submits = << >> /\ e.retrieves = 0
    /\ e.puts = << >> /\ storage = e.before

\* C10 as stated: a request with neither a common name nor alt names fails
\* with the no-domains error before the CA client is built.
C10_NoNamesAlwaysInvalidRequest ==
    \A p \in AllProcs :
        NamesEmpty(enr[p])
            => /\ EndsBeforeClient(enr[p])
               /\ enr[p].pc = "done"
                     => enr[p].resp = ErrorResponse(ErrNoDomains)

\* C10 amended: a request with neither a common name nor alt names fails
\* before the CA client is built, with no key, no CA call and no write; the
\* failure is the no-domains error when the role was found, and the error
\* of the role lookup when it was not.
C10_NoNamesFailsBeforeClient ==
    \A p \in AllProcs :
        LET e == enr[p] IN
        NamesEmpty(e)
            => /\ EndsBeforeClient(e)
               /\ e.pc = "done"
                     => IF e.role # Null
                        THEN e.resp = ErrorResponse(ErrNoDomains)
                        ELSE e.resp \in {GoError(ErrRoleLookup),
                                         GoError(ErrUnknownRole)}

\* C10 witness: a request without names was refused under a known role.
C10_Witness ==
    \E p \in AllProcs :
        /\ NamesEmpty(enr[p])
        /\ enr[p].role # Null
        /\ enr[p].pc = "done"
        /\ enr[p].resp = ErrorResponse(ErrNoDomains)

\* The request came without a common name and with alt names.
Promoted(e) ==
    /\ e.data # Null
    /\ Len(e.data.common_name) = 0 /\ Len(e.data.alt_names) > 0

\* The subject common name of a PEM-encoded CSR.
SubjectOf(csr) == csr[3].subject

\* C11: when a request has no common name but alt names, then from the name
\* check on the common name of the enrollment is the first alt name, and that
\* name is the common name of the built request and the subject of the CSR
\* submitted, the name in the key of the certs/<commonName> entry, and the
\* common_name of the response.
C11_PromotedNameUsedThroughout ==
    \A p \in AllProcs :
        LET e == enr[p] IN
        (Promoted(e) /\ e.role # Null /\ e.pc # "names")
            => LET first == e.data.alt_names[1] IN
               /\ e.commonName = first
               /\ e.certReq # Null
                     => /\ e.certReq.CommonName = first
                        /\ SubjectOf(e.certReq.CSR) = first
               /\ \A i \in 1..Len(e.submits) : SubjectOf(e.submits[i]) = first
               /\ (e.role.StoreByCN /\ e.puts # << >>)
                     => /\ e.puts[1].Key = CertsPrefix \o first
                        /\ CertsPrefix \o first \in DOMAIN storage
               /\ Succeeded(e) => e.resp.Data.common_name = first

\* C11 witness: an enrollment without a common name succeeded, its
\* certificate is stored under the first alt name and the response names it.
C11_Witness ==
    \E p \in AllProcs :
        /\ Promoted(enr[p]) /\ Succeeded(enr[p])
        /\ enr[p].role.StoreByCN
        /\ enr[p].puts[1].Key = CertsPrefix \o enr[p].data.alt_names[1]
        /\ SubjectOf(enr[p].submits[1]) = enr[p].data.alt_names[1]
        /\ enr[p].resp.Data.common_name = enr[p].data.alt_names[1]

\* The record an enrollment stores: certificate, chain, serial and the key
\* if the role stores it.
RecordOf(e) == e.entry.Value

\* Enrollment e made the write that key k now holds.
WroteLast(e, k) == e.pkey # Null /\ storage[k].writer.pkey = e.pkey

\* The record is of one certificate throughout: a well-formed leaf, the
\* chain of that leaf and its issuer, and the serial number of that leaf.
OneCertificate(v) ==
    /\ WellFormed(v.certificate)
    /\ v.certificate_chain = <<v.certificate, IssuerPEM>>
    /\ v.serial_number = getHexFormatted(BigIntBytes(v.certificate.serial),
                                         <<":">>)

\* Handlers at work on requests for one common name are not kept apart:
\* each has built its own key and CSR, once, and submitted at most once; and
\* what a key holds is the whole record of the enrollment that wrote last.
NoDeduplication ==
    /\ \A p \in AllProcs :
          enr[p].builds <= 1 /\ Len(enr[p].submits) <= 1
    /\ \A p, q \in AllProcs :
          (p # q /\ enr[p].certReq # Null /\ enr[q].certReq # Null)
              => /\ enr[p].certReq.PrivateKey # enr[q].certReq.PrivateKey
                 /\ enr[p].certReq.CSR # enr[q].certReq.CSR
                 /\ enr[p].pkey # enr[q].pkey
    /\ \A k \in DOMAIN storage :
          /\ OneCertificate(storage[k].Value)
          /\ storage[k].Value.private_key \in
                {EmptyStr, PemEncode(storage[k].writer.pkey)}
          /\ \A p \in AllProcs :
                WroteLast(enr[p], k) => storage[k].Value = RecordOf(enr[p])

\* A step that changes what a key holds is a Put of one handler, and the key
\* then holds the whole record of that handler's enrollment; no key is
\* removed.
LastWriterWins ==
    /\ DOMAIN storage \subseteq DOMAIN storage'
    /\ \A k \in DOMAIN storage' :
          (k \notin DOMAIN storage \/ storage'[k] # storage[k])
              => \E p \in AllProcs :
                    /\ Len(enr'[p].puts) = Len(enr[p].puts) + 1
                    /\ enr'[p].puts[Len(enr'[p].puts)].Key = k
                    /\ storage'[k].Value = RecordOf(enr[p])
                    /\ storage'[k].writer.pkey = enr[p].pkey

\* C12: two enrollments for the same common name under a role that stores
\* by common name run side by side without lock or deduplication: each
\* builds its own key pair and CSR and submits once, and in every
\* interleaving certs/<commonName> holds the complete record of the
\* enrollment that wrote it last, never parts of two.
C12_ConcurrentLastWriterWins == []NoDeduplication /\ [][LastWriterWins]_vars

\* C12 witness: two enrollments for one common name have both succeeded and
\* certs/<commonName> holds the record of one and not that of the other.
C12_Witness ==
    \E p, q \in AllProcs :
        /\ p # q /\ Succeeded(enr[p]) /\ Succeeded(enr[q])
        /\ enr[p].commonName = enr[q].commonName
        /\ enr[p].puts # << >> /\ enr[q].puts # << >>
        /\ enr[p].puts[1].Key = enr[q].puts[1].Key
        /\ RecordOf(enr[p]) # RecordOf(enr[q])
        /\ storage[CNKey(enr[p].commonName)].Value = RecordOf(enr[p])

\* The CA calls an enrollment has made.
CACalls(e) == <<e.clientBuilt, e.submits, e.polled, e.retrieves>>

\* A handler that has served a revoke request has returned nil, nil, with
\* no CA call and no write.
RevokeReturnsNil ==
    \A p \in AllProcs :
        enr[p].d # Null
            => /\ enr[p].pc = "done"
               /\ enr[p].resp = NilResponse
               /\ enr[p].resp.err = NoErr
               /\ CACalls(enr[p]) = CACalls(Idle)
               /\ enr[p].puts = << >>

\* The step in which a handler serves a revoke request leaves storage and
\* every other handler as they are.
RevokeFrame ==
    \A p \in AllProcs :
        (enr[p].d = Null /\ enr'[p].d # Null)
            => /\ storage' = storage
               /\ \A q \in AllProcs \ {p} : enr'[q] = enr[q]

\* C13: whatever role and certificate a revoke request names and whatever
\* the state it arrives in, the handler returns nil, nil, calls no CA and
\* leaves every storage entry as it is, the entry of the certificate named
\* included.
C13_RevokeDoesNothing == []RevokeReturnsNil /\ [][RevokeFrame]_vars

\* C13 witness: a revoke request for a certificate that is stored has
\* returned while another handler polls the CA; the entry is still there.
C13_Witness ==
    \E p, q \in AllProcs :
        /\ enr[p].d # Null /\ enr[p].resp = NilResponse
        /\ CertsPrefix \o enr[p].d.certificate_uid \in DOMAIN storage
        /\ storage = enr[p].before
        /\ enr[q].pc = "retrieve"

\* C14: an enrollment whose polls have all been answered Pending or Timeout,
\* however many there were, is still in the loop: it has returned nothing,
\* has no certificate and has written nothing, each answer was followed by a
\* sleep, and its next step is the sleep or the next RetrieveCertificate.
C14_PollingHasNoLimit ==
    \A p \in AllProcs :
        LET e == enr[p] IN
        (e.retryable > 0 /\ e.terminal = 0)
            => /\ e.pc \in {"sleep", "retrieve"}
               /\ e.resp = Null
               /\ e.cert = Null /\ e.puts = << >>
               /\ e.retrieves = e.retryable
               /\ e.pc = "sleep"
                     => (e.sleeps = e.retryable - 1 /\ ENABLED Sleep(p))
               /\ e.pc = "retrieve"
                     => (e.sleeps = e.retryable
                           /\ ENABLED RetrieveCertificate(p))

\* C14 witness: after as many Pending/Timeout answers as the CA gives, the
\* handler is about to call RetrieveCertificate once more.
C14_Witness ==
    \E p \in AllProcs :
        /\ enr[p].retryable = MaxPending /\ enr[p].terminal = 0
        /\ enr[p].sleeps = MaxPending
        /\ enr[p].pc = "retrieve" /\ enr[p].resp = Null

\* What an enrollment has done so far came in the order of the handler:
\* createVenafiCSR once and before the submission, polls only after a
\* submission that gave a handle, writes only after the poll that gave a
\* certificate and after its parse, the response after every write the role
\* asks for.
InOrder(e) ==
    /\ e.builds <= 1 /\ Len(e.submits) <= 1
    /\ e.builds = 1 => e.clientBuilt
    /\ e.submits # << >> => (e.builds = 1 /\ e.certReq # Null)
    /\ e.retrieves > 0 => (Len(e.submits) = 1 /\ e.id > 0)
    /\ e.cert # Null => (e.retrieves > 0 /\ e.terminal = 1)
    /\ e.parsed # Null => (e.cert # Null /\ WellFormed(e.cert.Certificate))
    /\ e.entry # Null => e.parsed # Null
    /\ (e.puts # << >> \/ e.putFailed) => e.entry # Null
    /\ (e.pc = "respond" \/ Succeeded(e))
          => (KeysWritten(e) = ExpectedKeys(e) /\ ~e.putFailed)

\* One step of a handler keeps the order: it builds only before submitting,
\* submits only before polling, polls only while it has no answer but
\* Pending/Timeout, writes only with the certificate parsed and no response
\* yet; and a handler that has returned a response or an error, or has
\* panicked, does nothing but take the next request.
StepInOrder ==
    \A p \in AllProcs :
        LET e == enr[p]
            f == enr'[p]
        IN  /\ f.builds > e.builds => (e.submits = << >> /\ e.retrieves = 0)
            /\ Len(f.submits) > Len(e.submits)
                  => (e.builds = 1 /\ e.retrieves = 0 /\ e.puts = << >>)
            /\ f.retrieves > e.retrieves
                  => (Len(e.submits) = 1 /\ e.terminal = 0 /\ e.puts = << >>)
            /\ Len(f.puts) > Len(e.puts)
                  => (e.parsed # Null /\ e.terminal = 1 /\ e.resp = Null)
            /\ e.pc \in {"done", "panic"}
                  => (f = e \/ f = Idle) /\ storage' = storage

\* C15: every enrollment goes through its steps in the order build, submit,
\* poll, parse, write, respond, each step resting on the success of the one
\* before, and after it has returned it makes no CA call and no write.
C15_StepsInOrder ==
    [](\A p \in AllProcs : InOrder(enr[p])) /\ [][StepInOrder]_vars

\* C15 witness: an enrollment that was polled three times and wrote both
\* copies has returned its response.
C15_Witness ==
    \E p \in AllProcs :
        /\ Succeeded(enr[p])
        /\ enr[p].builds = 1 /\ Len(enr[p].submits) = 1
        /\ enr[p].retrieves = 3 /\ Len(enr[p].puts) = 2

\* The CA has given the enrollment a pickup handle.
Submitted(e) == e.id > 0 /\ Len(e.submits) = 1

\* The handler has returned a response or an error to the caller.
Returned(e) == e.pc = "done" /\ e.resp # Null

\* C16: with a CA that ends its Pending/Timeout answers, an enrollment that
\* was submitted comes to its end, Issued or Failed, and the handler returns
\* a response to the caller.
C16_SubmittedEventuallyReturns ==
    \A p \in AllProcs : Submitted(enr[p]) ~> Returned(enr[p])

\* The handler has returned a failure that is no failed storage write: the
\* role was not found, no name was given, the client, the key or the CSR
\* could not be built, or the CA refused the submission or the retrieval.
IssuanceFailed(e) ==
    /\ e.pc = "done" /\ e.data # Null
    /\ ~e.putFailed /\ RespKind(e) # "ok"

\* The handler has returned because a storage write failed.
WriteFailed(e) == e.pc = "done" /\ e.putFailed

\* C17: a failed storage write ends the enrollment with a Go error and no
\* success response; the writes made before it stay in storage, no write
\* follows it (after a failed certs/<commonName> write nothing was written),
\* and the failure comes in a form that no issuance failure comes in.
C17_WriteFailureIsDistinctHardError ==
    /\ \A p \in AllProcs :
          LET e == enr[p] IN
          WriteFailed(e)
              => /\ e.resp = GoError(ErrStorage)
                 /\ e.cert # Null /\ e.parsed # Null
                 /\ Len(e.puts) <= 1
                 /\ e.puts = << >> => storage = e.before
                 /\ Len(e.puts) = 1
                       => /\ e.role.StoreByCN /\ e.role.StoreBySerial
                          /\ e.puts[1].Key = CNKey(e.commonName)
                          /\ e.puts[1].Key \in DOMAIN storage
                          /\ storage[e.puts[1].Key].Value = e.puts[1].Value
    /\ \A p \in AllProcs :
          IssuanceFailed(enr[p])
              => RespKind(enr[p]) # GoError(ErrStorage).kind

NamedCurves == {"P224", "P256", "P384", "P521"}

\* key_curve texts the switch of createVenafiCSR does not name.
UnnamedCurves == {"", "P192", "p256"}

\* The enrollment runs under an ec role whose curve the switch does not name.
UnnamedCurve(e) ==
    e.role # Null /\ e.role.keyType = "ec" /\ e.role.keyCurve \notin NamedCurves

\* What createVenafiCSR builds with curve c is what it builds with P256,
\* but for the curve of the request and of the key, which is unset.
BuiltAsForP256(commonName, altNames, c, n) ==
    LET got == createVenafiCSR(commonName, altNames,
                   [keyType |-> "ec", keyBits |-> 2048, keyCurve |-> c], n)
        ref == createVenafiCSR(commonName, altNames,
                   [keyType |-> "ec", keyBits |-> 2048, keyCurve |-> "P256"], n)
    IN  /\ got.err = NoErr /\ ref.err = NoErr
        /\ got.req.KeyCurve = CurveUnset /\ ref.req.KeyCurve = "P256"
        /\ got.req.PrivateKey # Null
        /\ got.req.PrivateKey.curve = CurveUnset
        /\ got.key = ref.key
        /\ got.req =
              [ref.req EXCEPT !.KeyCurve = CurveUnset,
                              !.PrivateKey.curve = CurveUnset]

\* The enrollment runs under an ec role and createVenafiCSR has just
\* returned to it.
BuiltForEC(e) == e.role # Null /\ e.role.keyType = "ec" /\ e.pc = "submit"

\* C18: with key type ec and a curve that is none of P224, P256, P384 and
\* P521, the empty text included, createVenafiCSR returns no error: the
\* curve of the request stays unset, a key and a CSR are built as they are
\* for P256, and the enrollment goes on to the submission of that CSR.
C18_UnnamedCurveFallsThrough ==
    \A p \in AllProcs :
        LET e == enr[p] IN
        /\ BuiltForEC(e)
              => \A c \in UnnamedCurves :
                    BuiltAsForP256(e.commonName, e.altNames, c, e.eid)
        /\ (UnnamedCurve(e) /\ e.pc = "submit")
              => /\ BuiltAsForP256(e.commonName, e.altNames,
                                   e.role.keyCurve, e.eid)
                 /\ e.certReq =
                       createVenafiCSR(e.commonName, e.altNames, RolePk(e),
                                       e.eid).req
        /\ (UnnamedCurve(e) /\ e.builds = 1)
              => /\ e.certReq # Null /\ e.pkey # Null
                 /\ e.certReq.KeyType = KeyTypeECDSA
                 /\ e.certReq.KeyCurve = CurveUnset
                 /\ e.certReq.CSR # EmptyStr
                 /\ e.pc # "csr"
                 /\ e.pc = "done" => Len(e.submits) = 1
                 /\ \A i \in 1..Len(e.submits) :
                       e.submits[i] = e.certReq.CSR

\* C18 witness: an enrollment under an ec role with an empty curve was
\* submitted with its curve unset and has returned its certificate.
C18_Witness ==
    \E p \in AllProcs :
        /\ UnnamedCurve(enr[p]) /\ Succeeded(enr[p])
        /\ enr[p].certReq.KeyCurve = CurveUnset
        /\ Len(enr[p].submits) = 1

\* C19: every poll of an enrollment carries the pickup handle its own
\* submission was given, the same at every poll, and the certificate it
\* goes on with and stores was picked up with that handle; enrollments that
\* run side by side have different handles, and none polls with, or stores
\* a certificate picked up with, the handle of another.
C19_OwnPickupHandleOnly ==
    /\ \A p \in AllProcs :
          LET e == enr[p] IN
          /\ e.retrieves = 0 => e.polled = {}
          /\ e.retrieves > 0
                => /\ e.id > 0 /\ e.id = PickupHandle(e)
                   /\ e.certReq.PickupID = e.id
                   /\ e.polled = {e.id}
          /\ e.cert # Null => e.cert.pickup = e.id
          /\ \A i \in 1..Len(e.puts) :
                /\ e.cert.pickup = e.id
                /\ e.puts[i].Value.certificate = e.cert.Certificate
    /\ \A p, q \in AllProcs :
          (p # q /\ enr[p].id > 0)
              => /\ enr[q].id # enr[p].id
                 /\ enr[p].id \notin enr[q].polled
                 /\ enr[q].cert # Null => enr[q].cert.pickup # enr[p].id

\* C19 witness: of two enrollments under way, one has polled twice with
\* its handle and the other has stored the certificate picked up with its
\* own.
C19_Witness ==
    \E p, q \in AllProcs :
        /\ p # q
        /\ enr[p].retrieves = 2 /\ enr[p].polled = {enr[p].id}
        /\ enr[q].puts # << >> /\ enr[q].cert.pickup = enr[q].id
        /\ enr[p].id > 0 /\ enr[q].id > 0 /\ enr[p].id # enr[q].id

\* The ways an enrollment fails before it writes: no role, no name, no
\* client, no key or CSR, submission refused, retrieval refused.
EarlyFailures ==
    {GoError(ErrRoleLookup), GoError(ErrUnknownRole),
     ErrorResponse(ErrNoDomains), ErrorResponse(ErrClient),
     ErrorResponse(ErrKeyAlgorithm), ErrorResponse(ErrSubmit),
     ErrorResponse(ErrRejected)}

\* C20: an enrollment that has failed before its first write, for whichever
\* reason, has written nothing and storage is as the request found it; an
\* enrollment touches storage only once it holds a parsed certificate; and
\* every record in storage is that of a certificate the CA issued, whole.
C20_FailureLeavesStorageAlone ==
    /\ \A p \in AllProcs :
          LET e == enr[p] IN
          /\ IssuanceFailed(e)
                => /\ e.resp \in EarlyFailures
                   /\ e.puts = << >>
                   /\ storage = e.before
          /\ (e.pc # "idle" /\ e.parsed = Null)
                => (e.puts = << >> /\ storage = e.before)
          /\ e.pc = "panic" => storage = e.before
    /\ \A k \in DOMAIN storage : OneCertificate(storage[k].Value)

\* C20 witness: the CA refused the retrieval of an enrollment, and storage
\* holds the records of an earlier one, as before.
C20_Witness ==
    \E p \in AllProcs :
        /\ IssuanceFailed(enr[p])
        /\ enr[p].resp = ErrorResponse(ErrRejected)
        /\ enr[p].before # << >> /\ storage = enr[p].before

====
